---- MODULE Spec2Model ----
(***************************************************************************)
(* A model of the realtime session service (GeminiLiveService) and of the  *)
(* capture pairing pipeline (MediaService), each an object of its own.     *)
(*                                                                         *)
(* The services run on a single-threaded event loop.  One action of the    *)
(* model is one task of that loop: a public method up to its first await,  *)
(* the continuation after an await, a timer callback or a connection       *)
(* callback.  A handler is an operator from the state (a record of the     *)
(* object's fields) to the state after it, so a handler that calls another *)
(* handler is the composition of the two operators.                        *)
(*                                                                         *)
(* Time is kept relative to "now": a timer holds the milliseconds left     *)
(* until it is due (0 once it is due), lastActivityTime holds              *)
(* now - lastActivityTime and tokenExpiresAt holds tokenExpiresAt - now.   *)
(* Tick(d) lets d ms pass.  A callback never runs before its timer is due  *)
(* and may run any time after: the clock can move on past a due timer, and *)
(* any other task can run at any moment between two deadlines.             *)
(***************************************************************************)
EXTENDS Integers, Sequences, FiniteSets, TLC

VARIABLES
  currentSession,       \* the session object, or NoSession for null
  sessionHandle,        \* stored resumption handle, NoHandle for null
  reconnectAttempts,
  healthCheckInterval,  \* ms until the next health-check tick, NoTimer when cleared
  lastActivityTime,     \* now - lastActivityTime in ms, capped above the timeout
  currentToken,         \* id of the stored token, NoToken for null
  tokenExpiresAt,       \* tokenExpiresAt - now in ms (floored at 0), NoExpiry for null
  tokenRefreshInterval, \* ms until the refresh timer fires, NoTimer when none is pending
  isRefreshingToken,
  ai,                   \* token id the GoogleGenAI client was built with, NoToken for null
  pending,              \* bag of suspended continuations and one-shot timers
  conns,                \* remote connections, in the order live.connect created them
  nFetch,               \* issuance requests made so far (the next token's id)
  out,                  \* outcome of the public call made in the last step, if any
  sent,                 \* number of remote send operations invoked
  now,                  \* ms since construction
  hist,                 \* history of the run, read only by the properties
  media                 \* the MediaService object: its fields and its pending callbacks

vars == << currentSession, sessionHandle, reconnectAttempts, healthCheckInterval,
           lastActivityTime, currentToken, tokenExpiresAt, tokenRefreshInterval,
           isRefreshingToken, ai, pending, conns, nFetch, out, sent, now, hist,
           media >>

----------------------------------------------------------------------------
(* Bounds of the model: what a specification allows of one run *)

SendMaxSends == 2      \* remote sends invoked in a run of Spec
SendHorizon == 800    \* ms a run of Spec lasts
ReconnectMaxConns == 5       \* connections created in a run of SpecReconnect
ReconnectHorizon == 5000     \* ms a run of SpecReconnect lasts
ResumeMaxConns == 3          \* connections created in a run of SpecResume
ResumeHorizon == 400        \* ms a run of SpecResume lasts
GoAwayMaxConns == 2          \* connections created in a run of SpecGoAway
GoAwayMaxTimers == 1         \* go-away timers pending at once in a run of SpecGoAway
GoAwayHorizon == 21000       \* ms a run of SpecGoAway lasts
TokenMaxCalls == 2           \* connectSession() calls of the application in SpecToken
TokenMaxFetches == 3         \* issuance requests made in a run of SpecToken
TokenMaxPending == 3         \* continuations and timers pending at once in SpecToken
TokenHorizon == 1500         \* ms a run of SpecToken lasts
AuthMaxConns == 2            \* connections created in a run of SpecAuth
AuthMaxFetches == 2          \* issuance requests made in a run of SpecAuth
AuthMaxCalls == 2            \* connectSession() calls of the application in SpecAuth
AuthMaxPending == 2          \* continuations and timers pending at once in SpecAuth
AuthHorizon == 1200          \* ms a run of SpecAuth lasts
HealthMaxConns == 2          \* connections created in a run of SpecHealth
HealthMaxSends == 2          \* remote sends invoked in a run of SpecHealth
HealthHorizon == 450000      \* ms a run of SpecHealth lasts
ExpiryMaxConns == 2          \* connections created in a run of SpecExpiry
ExpiryMaxFetches == 2        \* issuance requests made in a run of SpecExpiry
ExpiryMaxPending == 1        \* continuations and timers pending at once in SpecExpiry
ExpiryHorizon == 61000       \* ms a run of SpecExpiry lasts
RetryMaxConns == 3           \* connections created in a run of SpecRetry
RetryMaxCalls == 2           \* connectSession() calls of the application in SpecRetry
RetryHorizon == 1500         \* ms a run of SpecRetry lasts
StopMaxConns == 3            \* connections created in a run of SpecStop
StopMaxFetches == 2          \* issuance requests made in a run of SpecStop
StopTwiceMaxDisconnects == 2 \* disconnectSession() calls in a run of SpecStopTwice
StopHorizon == 1200          \* ms a run of SpecStop and of SpecStopTwice lasts
MediaMaxStarts == 2          \* startCapture() calls in a run of SpecMedia
MediaMaxFrames == 2          \* video frames captured in a run of SpecMedia
WarnedMaxConns == 3    \* connections created in a run of SpecWarned
WarnedHorizon == 21000 \* ms a run of SpecWarned lasts
ChainMaxFetches == 8   \* issuance requests made in a run of SpecChain
ChainMaxConns == 2     \* connections created in a run of SpecChain
ChainHorizon == 400    \* ms a run of SpecChain lasts
EarlyMaxConns == 3     \* connections created in a run of SpecEarly
EarlyHorizon == 1500   \* ms a run of SpecEarly lasts
LateMaxConns == 2      \* connections created in a run of SpecLate
LateMaxCalls == 2      \* connectSession() calls in a run of SpecLate
LateMaxSends == 1      \* remote sends invoked in a run of SpecLate
LateHorizon == 400     \* ms a run of SpecLate lasts

PipelineMaxSends == 3  \* remote sends invoked in a run of SpecPipeline
PipelineMaxFrames == 2 \* video frames captured in a run of SpecPipeline
PipelineMaxChunks == 3 \* audio chunks delivered in a run of SpecPipeline
PipelineHorizon == 400 \* ms a run of SpecPipeline lasts
MediaMaxChunks == 2          \* audio chunks delivered in a run of SpecMedia
MediaMaxCleanups == 2        \* cleanup() and switchCamera() calls in a run of SpecMedia

(* Program constants, in milliseconds unless said otherwise *)

maxReconnectAttempts == 3
reconnectDelay == 1000
HealthCheckPeriod == 30000
inactivityTimeout == 5 * 60 * 1000
bufferTime == 2 * 60 * 1000
RefreshLead == 3 * 60 * 1000
EnsureWait == 1000
GoAwayMargin == 10     \* seconds

NoTimer == -1
NoToken == 0
NoExpiry == -1
NoHandle == 0
NoConn == 0

NoSession == [conn |-> NoConn, isConnected |-> FALSE, isProcessing |-> FALSE]

\* an inbound message: its optional sessionResumptionUpdate (resumable, newHandle),
\* goAway (timeLeft in ms, NoTimer when absent) and serverContent.generationComplete
NoMsg == [update |-> FALSE, resumable |-> FALSE, newHandle |-> NoHandle,
          goAway |-> NoTimer, generationComplete |-> FALSE]
GenerationComplete == [NoMsg EXCEPT !.generationComplete = TRUE]

\* out: what the last step was, when it was a public call, an inbound message or
\* the go-away timer: the call, whether it carried audio, the message, what it
\* returned, the session, activity clock, send count and reconnection history it
\* found, whether it changed the state, and how long the timer had been armed
NoPre == [currentSession |-> NoSession, lastActivityTime |-> 0, sent |-> 0,
          attempts |-> 0, exhausted |-> 0, nFetch |-> 0, isRefreshingToken |-> FALSE]
NoOut == [op |-> "none", res |-> "none", audio |-> FALSE, msg |-> NoMsg,
          pre |-> NoPre, changed |-> FALSE, age |-> 0]

Handles == {1, 2}      \* two distinct resumption handles, "h1" and "h2"

Max(a, b) == IF a >= b THEN a ELSE b
Min(a, b) == IF a <= b THEN a ELSE b

----------------------------------------------------------------------------
(* The bag of pending continuations *)

EmptyBag == [x \in {} |-> 0]
BagAdd(B, e) == IF e \in DOMAIN B THEN [B EXCEPT ![e] = @ + 1] ELSE B @@ (e :> 1)
BagDel(B, e) == IF B[e] > 1 THEN [B EXCEPT ![e] = @ - 1]
                ELSE [x \in DOMAIN B \ {e} |-> B[x]]
BagSize(B, S) == LET RECURSIVE Sum(_)
                     Sum(D) == IF D = {} THEN 0
                               ELSE LET e == CHOOSE x \in D : TRUE
                                    IN B[e] + Sum(D \ {e})
                 IN Sum({e \in DOMAIN B : e \in S})

(* kind: "wait"    ensureValidToken's one-second sleep (a timer)             *)
(*       "fetch"   requestNewToken awaiting the issuance endpoint            *)
(*       "connect" connectSession awaiting ai.live.connect                   *)
(*       "backoff" reconnectSession's retry timer                            *)
(*       "goAway"  handleGoAway's countdown timer                            *)
(*       "close"   disconnectSession awaiting session.close()                *)
(* caller: "user", "reconnect" (connectSession's caller), "refresh"          *)
(*       (refreshToken) or "app" (requestNewToken called by the application) *)
(* left: ms until a timer is due; n: the connection, token id or timeLeft;   *)
(* age: ms since the timer was armed; epoch: how many disconnectSession      *)
(* calls had completed when the continuation was suspended                   *)
P(kind, caller, left, n) ==
  [kind |-> kind, caller |-> caller, left |-> left, n |-> n, age |-> 0, epoch |-> 0]

IsTimer(p) == p.kind \in {"wait", "backoff", "goAway"}

State == [ currentSession |-> currentSession, sessionHandle |-> sessionHandle,
           reconnectAttempts |-> reconnectAttempts,
           healthCheckInterval |-> healthCheckInterval,
           lastActivityTime |-> lastActivityTime, currentToken |-> currentToken,
           tokenExpiresAt |-> tokenExpiresAt,
           tokenRefreshInterval |-> tokenRefreshInterval,
           isRefreshingToken |-> isRefreshingToken, ai |-> ai, pending |-> pending,
           conns |-> conns, nFetch |-> nFetch, out |-> NoOut, sent |-> sent,
           now |-> now, hist |-> hist ]

CommitSession(s) ==
  /\ currentSession' = s.currentSession
  /\ sessionHandle' = s.sessionHandle
  /\ reconnectAttempts' = s.reconnectAttempts
  /\ healthCheckInterval' = s.healthCheckInterval
  /\ lastActivityTime' = s.lastActivityTime
  /\ currentToken' = s.currentToken
  /\ tokenExpiresAt' = s.tokenExpiresAt
  /\ tokenRefreshInterval' = s.tokenRefreshInterval
  /\ isRefreshingToken' = s.isRefreshingToken
  /\ ai' = s.ai
  /\ pending' = s.pending
  /\ conns' = s.conns
  /\ nFetch' = s.nFetch
  /\ out' = s.out
  /\ sent' = s.sent
  /\ now' = s.now
  /\ hist' = s.hist

Commit(s) == CommitSession(s) /\ UNCHANGED media

Suspend(s, p) == [s EXCEPT !.pending = BagAdd(@, [p EXCEPT !.epoch = s.hist.stops])]
Resume(s, p) == [s EXCEPT !.pending = BagDel(@, p)]
Result(s, op, res) == [s EXCEPT !.out.op = op, !.out.res = res]
Observe(pre, post, audio, msg) ==
  [post EXCEPT !.out.audio = audio, !.out.msg = msg,
               !.out.pre = [currentSession |-> pre.currentSession,
                            lastActivityTime |-> pre.lastActivityTime,
                            sent |-> pre.sent,
                            attempts |-> pre.hist.attempts,
                            exhausted |-> pre.hist.exhausted,
                            nFetch |-> pre.nFetch,
                            isRefreshingToken |-> pre.isRefreshingToken],
               !.out.changed = ([post EXCEPT !.out = NoOut] # pre),
               !.hist.busy =
                 IF @ = "no" /\ audio /\ post.out.res = "sent"
                    /\ post.currentSession.isProcessing THEN "set"
                 ELSE IF @ = "set" /\ audio /\ post.out.res = "dropped" THEN "dropped"
                 ELSE IF @ = "dropped" /\ msg.generationComplete
                         /\ pre.currentSession.isProcessing
                         /\ ~post.currentSession.isProcessing THEN "cleared"
                 ELSE @]

HasSession(s) == s.currentSession.conn # NoConn

\* isSessionActive(): currentSession !== null && currentSession.isConnected
isSessionActive(s) == HasSession(s) /\ s.currentSession.isConnected

----------------------------------------------------------------------------
(* Credential store and issuer *)

\* isTokenValid(): a token is stored and now < tokenExpiresAt - bufferTime
isTokenValid(s) ==
  /\ s.currentToken # NoToken
  /\ s.tokenExpiresAt # NoExpiry
  /\ 0 < s.tokenExpiresAt - bufferTime

\* requestNewToken() up to its await of fetch
requestNewToken(s, caller) ==
  Suspend([s EXCEPT !.nFetch = @ + 1], P("fetch", caller, 0, s.nFetch + 1))

\* refreshToken() up to its await of requestNewToken
refreshToken(s) ==
  IF s.isRefreshingToken THEN s
  ELSE requestNewToken([s EXCEPT !.isRefreshingToken = TRUE], "refresh")

\* scheduleTokenRefresh(): called with tokenExpiresAt just set
scheduleTokenRefresh(s) ==
  LET cleared == [s EXCEPT !.tokenRefreshInterval = NoTimer]
      refreshTime == s.tokenExpiresAt - RefreshLead
  IN IF s.tokenExpiresAt = NoExpiry THEN cleared
     ELSE IF refreshTime > 0 THEN [cleared EXCEPT !.tokenRefreshInterval = refreshTime]
     ELSE refreshToken(cleared)

\* requestNewToken() after a 2xx response: store the token, schedule the refresh
tokenIssued(s, tok, ttl) ==
  scheduleTokenRefresh([s EXCEPT !.currentToken = tok, !.tokenExpiresAt = ttl,
                                 !.hist.issuedLeft = ttl])

----------------------------------------------------------------------------
(* Connecting and reconnecting *)

\* connectFailed leaving the token stored after an authentication failure
connectFailed_keepsToken(s, caller, auth) ==
  LET n == s.reconnectAttempts + 1
  IN IF caller = "reconnect"
     THEN Suspend([s EXCEPT !.reconnectAttempts = n, !.hist.failed = @ + 1],
                  P("backoff", caller, reconnectDelay * n, n))
     ELSE Result(s, "connectSession", "error")

\* connectSession's catch block, then its caller's: reconnectSession counts the
\* failure and arms the backoff timer; the application gets the error
connectFailed(s, caller, auth) ==
  LET s1 == IF auth THEN [s EXCEPT !.currentToken = NoToken, !.tokenExpiresAt = NoExpiry]
            ELSE s
      n == s1.reconnectAttempts + 1
  IN IF caller = "reconnect"
     THEN Suspend([s1 EXCEPT !.reconnectAttempts = n, !.hist.failed = @ + 1],
                  P("backoff", caller, reconnectDelay * n, n))
     ELSE Result(s1, "connectSession", "error")

\* the tokens the remote has rejected with 401 or 403
Rejected(cs) == {cs[c].token : c \in {d \in DOMAIN cs : cs[d].st = "unauthorized"}}

\* connectWithToken going on whatever ensureValidToken reported
connectWithToken_ignoresResult(s, caller, hasValidToken) ==
  IF s.ai = NoToken THEN connectFailed(s, caller, FALSE)
  ELSE LET c == Len(s.conns) + 1
       IN Suspend([s EXCEPT !.conns = Append(@, [st |-> "opening", returned |-> FALSE,
                                                 handle |-> s.sessionHandle,
                                                 token |-> s.ai,
                                                 after |-> Cardinality(Rejected(s.conns))])],
                  P("connect", caller, 0, c))

\* connectSession() from the result of ensureValidToken to the await of live.connect;
\* a connection records the handle and the token it was requested with and how
\* many tokens had been rejected by then
connectWithToken(s, caller, hasValidToken) ==
  IF ~hasValidToken \/ s.ai = NoToken THEN connectFailed(s, caller, FALSE)
  ELSE LET c == Len(s.conns) + 1
       IN Suspend([s EXCEPT !.conns = Append(@, [st |-> "opening", returned |-> FALSE,
                                                 handle |-> s.sessionHandle,
                                                 token |-> s.ai,
                                                 after |-> Cardinality(Rejected(s.conns))])],
                  P("connect", caller, 0, c))

\* the issuance request of the refresh in flight, 0 when there is none
refreshInFlight(s) ==
  LET R == {q.n : q \in {r \in DOMAIN s.pending : r.kind = "fetch" /\ r.caller = "refresh"}}
  IN IF R = {} THEN 0 ELSE CHOOSE n \in R : \A k \in R : k <= n

\* connectSession() up to its first suspension, ensureValidToken() included; the
\* sleeping caller is recorded with the refresh it found in flight
connectSession(s, caller) ==
  IF s.isRefreshingToken THEN Suspend(s, P("wait", caller, EnsureWait, refreshInFlight(s)))
  ELSE IF isTokenValid(s) THEN connectWithToken(s, caller, TRUE)
  ELSE requestNewToken(s, caller)

\* connectSession() after live.connect resolved, then reconnectSession's reset
connectReturned(s, caller, c) ==
  LET s1 == [s EXCEPT !.currentSession = [conn |-> c, isConnected |-> TRUE,
                                          isProcessing |-> FALSE],
                      !.conns[c].returned = TRUE,
                      !.hist.attempts = 0, !.hist.opened = TRUE, !.hist.failed = 0]
  IN IF caller = "reconnect" THEN [s1 EXCEPT !.reconnectAttempts = 0]
     ELSE Result(s1, "connectSession", "ok")

\* cleanupSession leaving the token and its expiry stored
cleanupSession_keepsToken(s) ==
  [s EXCEPT !.healthCheckInterval = NoTimer,
            !.tokenRefreshInterval = NoTimer,
            !.currentSession = NoSession,
            !.reconnectAttempts = 0,
            !.isRefreshingToken = FALSE,
            !.hist.issuedLeft = NoExpiry, !.hist.failed = 0]

cleanupSession(s) ==
  [s EXCEPT !.healthCheckInterval = NoTimer,
            !.tokenRefreshInterval = NoTimer,
            !.currentSession = NoSession,
            !.reconnectAttempts = 0,
            !.currentToken = NoToken,
            !.tokenExpiresAt = NoExpiry,
            !.isRefreshingToken = FALSE,
            !.hist.issuedLeft = NoExpiry, !.hist.failed = 0]

reconnectSession(s) ==
  LET s1 == s
  IN IF s1.reconnectAttempts >= maxReconnectAttempts
     THEN cleanupSession([s1 EXCEPT !.hist.exhausted = @ + 1, !.hist.closed = "exhausted"])
     ELSE connectSession([s1 EXCEPT !.hist.attempts = @ + 1], "reconnect")

checkSessionHealth(s) ==
  IF isSessionActive(s) /\ s.lastActivityTime > inactivityTimeout
  THEN reconnectSession(s) ELSE s

handleSessionError(s) ==
  LET s1 == IF HasSession(s) THEN [s EXCEPT !.currentSession.isConnected = FALSE] ELSE s
  IN IF s1.currentToken # NoToken /\ isTokenValid(s1) THEN reconnectSession(s1) ELSE s1

handleSessionClose(s, reason) ==
  LET s1 == IF HasSession(s) THEN [s EXCEPT !.currentSession.isConnected = FALSE] ELSE s
  IN IF reason = "ABORTED" THEN reconnectSession(s1) ELSE s1

----------------------------------------------------------------------------
(* Inbound messages *)

\* parseInt of a time-left given in ms: the whole seconds, truncated toward zero
parseIntSeconds(ms) == IF ms >= 0 THEN ms \div 1000 ELSE -((-ms) \div 1000)

\* goAwayDelay without the safety margin
goAwayDelay_noMargin(timeLeft) == Max(0, parseIntSeconds(timeLeft) * 1000)

\* the delay handleGoAway passes to setTimeout; a negative delay fires at once
goAwayDelay(timeLeft) == Max(0, (parseIntSeconds(timeLeft) - GoAwayMargin) * 1000)

handleGoAway(s, timeLeft) ==
  Suspend(s, P("goAway", "timer", goAwayDelay(timeLeft), timeLeft))

\* acceptsHandle without the resumable check
acceptsHandle_ignoresResumable(m) == m.update /\ m.newHandle # NoHandle

\* whether a message's resumption update replaces the stored handle
acceptsHandle(m) == m.update /\ m.resumable /\ m.newHandle # NoHandle

\* handleMessage forgetting the stored handle on an update it does not accept
handleMessage_clearsOnRejectedUpdate(s, m) ==
  LET s1 == IF acceptsHandle(m) THEN [s EXCEPT !.sessionHandle = m.newHandle]
            ELSE IF m.update THEN [s EXCEPT !.sessionHandle = NoHandle] ELSE s
      s2 == IF m.goAway # NoTimer THEN handleGoAway(s1, m.goAway) ELSE s1
  IN IF m.generationComplete
     THEN IF HasSession(s2)
          THEN [st |-> [s2 EXCEPT !.currentSession.isProcessing = FALSE], threw |-> FALSE]
          ELSE [st |-> s2, threw |-> TRUE]
     ELSE [st |-> s2, threw |-> FALSE]

\* handleMessage(): a message is [update, resumable, newHandle, goAway, generationComplete];
\* .threw records the TypeError of writing isProcessing on a null session
handleMessage(s, m) ==
  LET s1 == IF acceptsHandle(m) THEN [s EXCEPT !.sessionHandle = m.newHandle] ELSE s
      s2 == IF m.goAway # NoTimer THEN handleGoAway(s1, m.goAway) ELSE s1
  IN IF m.generationComplete
     THEN IF HasSession(s2)
          THEN [st |-> [s2 EXCEPT !.currentSession.isProcessing = FALSE], threw |-> FALSE]
          ELSE [st |-> s2, threw |-> TRUE]
     ELSE [st |-> s2, threw |-> FALSE]

\* the onmessage callback: handleMessage, then the activity clock
onmessage(s, m) ==
  LET r == handleMessage(s, m)
      s1 == [r.st EXCEPT !.hist.lastAccepted =
                            IF m.update /\ m.resumable /\ m.newHandle # NoHandle
                            THEN m.newHandle ELSE @,
                         !.hist.sinceInbound = 0]
  IN IF r.threw THEN Result([s1 EXCEPT !.hist.msgThrew = TRUE], "onmessage", "threw")
     ELSE Result([s1 EXCEPT !.lastActivityTime = 0], "onmessage", "ok")

----------------------------------------------------------------------------
(* Sends *)

\* the remote send operation: it throws or it returns
remoteSend(s, fails) == [s EXCEPT !.sent = @ + 1]

\* sendAudioChunk without the isProcessing gate
sendAudioChunk_noBusyGate(s, fails) ==
  IF ~HasSession(s) \/ ~s.currentSession.isConnected
  THEN Result(s, "sendAudioChunk", "error")
  ELSE LET s1 == remoteSend([s EXCEPT !.currentSession.isProcessing = TRUE,
                                      !.lastActivityTime = 0], fails)
       IN IF fails
          THEN Result([s1 EXCEPT !.currentSession.isProcessing = FALSE],
                      "sendAudioChunk", "error")
          ELSE Result(s1, "sendAudioChunk", "sent")

\* sendAudioChunk whose catch does not clear isProcessing
sendAudioChunk_keepsBusyOnFailure(s, fails) ==
  IF ~HasSession(s) \/ ~s.currentSession.isConnected
  THEN Result(s, "sendAudioChunk", "error")
  ELSE IF s.currentSession.isProcessing THEN Result(s, "sendAudioChunk", "dropped")
  ELSE LET s1 == remoteSend([s EXCEPT !.currentSession.isProcessing = TRUE,
                                      !.lastActivityTime = 0], fails)
       IN Result(s1, "sendAudioChunk", IF fails THEN "error" ELSE "sent")

sendAudioChunk(s, fails) ==
  IF ~HasSession(s) \/ ~s.currentSession.isConnected
  THEN Result(s, "sendAudioChunk", "error")
  ELSE IF s.currentSession.isProcessing THEN Result(s, "sendAudioChunk", "dropped")
  ELSE LET s1 == remoteSend([s EXCEPT !.currentSession.isProcessing = TRUE,
                                      !.lastActivityTime = 0], fails)
       IN IF fails
          THEN Result([s1 EXCEPT !.currentSession.isProcessing = FALSE],
                      "sendAudioChunk", "error")
          ELSE Result(s1, "sendAudioChunk", "sent")

\* sendVideoFrame checking only that a session exists
sendVideoFrame_noConnectedCheck(s, fails) ==
  IF ~HasSession(s)
  THEN Result(s, "sendVideoFrame", "error")
  ELSE LET s1 == remoteSend([s EXCEPT !.lastActivityTime = 0], fails)
       IN Result(s1, "sendVideoFrame", IF fails THEN "error" ELSE "sent")

sendVideoFrame(s, fails) ==
  IF ~HasSession(s) \/ ~s.currentSession.isConnected
  THEN Result(s, "sendVideoFrame", "error")
  ELSE LET s1 == remoteSend([s EXCEPT !.lastActivityTime = 0], fails)
       IN Result(s1, "sendVideoFrame", IF fails THEN "error" ELSE "sent")

\* sendMultimodalInput dropping every input while isProcessing is set
sendMultimodalInput_gatesEveryInput(s, audio, video, fails) ==
  IF ~HasSession(s) \/ ~s.currentSession.isConnected
  THEN Result(s, "sendMultimodalInput", "error")
  ELSE IF s.currentSession.isProcessing
  THEN Result(s, "sendMultimodalInput", "dropped")
  ELSE LET s0 == IF audio THEN [s EXCEPT !.currentSession.isProcessing = TRUE] ELSE s
           s1 == remoteSend([s0 EXCEPT !.lastActivityTime = 0], fails)
       IN IF fails
          THEN Result(IF audio THEN [s1 EXCEPT !.currentSession.isProcessing = FALSE]
                      ELSE s1, "sendMultimodalInput", "error")
          ELSE Result(s1, "sendMultimodalInput", "sent")

sendMultimodalInput(s, audio, video, fails) ==
  IF ~HasSession(s) \/ ~s.currentSession.isConnected
  THEN Result(s, "sendMultimodalInput", "error")
  ELSE IF s.currentSession.isProcessing /\ audio
  THEN Result(s, "sendMultimodalInput", "dropped")
  ELSE LET s0 == IF audio THEN [s EXCEPT !.currentSession.isProcessing = TRUE] ELSE s
           s1 == remoteSend([s0 EXCEPT !.lastActivityTime = 0], fails)
       IN IF fails
          THEN Result(IF audio THEN [s1 EXCEPT !.currentSession.isProcessing = FALSE]
                      ELSE s1, "sendMultimodalInput", "error")
          ELSE Result(s1, "sendMultimodalInput", "sent")

sendTextMessage(s, fails) ==
  IF ~HasSession(s) \/ ~s.currentSession.isConnected
  THEN Result(s, "sendTextMessage", "error")
  ELSE LET s1 == remoteSend([s EXCEPT !.lastActivityTime = 0], fails)
       IN Result(s1, "sendTextMessage", IF fails THEN "error" ELSE "sent")

----------------------------------------------------------------------------
(* The tasks of the event loop *)

Pend(kind) == {p \in DOMAIN pending : p.kind = kind}

\* the application calls connectSession()
UserConnect ==
  Commit(connectSession([State EXCEPT !.hist.nUser = @ + 1, !.hist.closed = "no"], "user"))

\* ensureValidToken's one-second sleep is over: it returns isTokenValid()
WaitDone(p) ==
  /\ p.left = 0
  /\ LET s == Resume(State, p) IN Commit(connectWithToken(s, p.caller, isTokenValid(s)))

\* requestNewToken() called by the application itself: the method is public,
\* although no code of the repository calls it from outside the class
UserRequestToken == Commit(requestNewToken(State, "app"))

\* the continuation of requestNewToken's caller once it returned the token:
\* refreshToken and ensureValidToken build the client from it, the application
\* is handed the token and nothing else happens
tokenObtained(s, caller, tok) ==
  LET s1 == [s EXCEPT !.ai = tok]
  IN IF caller = "app" THEN Result(s, "requestNewToken", "token")
     ELSE IF caller = "refresh" THEN [s1 EXCEPT !.isRefreshingToken = FALSE]
     ELSE connectWithToken(s1, caller, TRUE)

\* the continuation of requestNewToken's caller once it returned null
tokenMissing(s, caller) ==
  IF caller = "app" THEN Result(s, "requestNewToken", "null")
  ELSE IF caller = "refresh" THEN [s EXCEPT !.isRefreshingToken = FALSE]
  ELSE connectWithToken(s, caller, FALSE)

\* the issuance endpoint answers 2xx with a token that expires in ttl ms
FetchOk(p, ttl) ==
  Commit(tokenObtained(tokenIssued(Resume(State, p), p.n, ttl), p.caller, p.n))

\* the issuance request fails
FetchFail(p) == Commit(tokenMissing(Resume(State, p), p.caller))

\* live.connect rejects; auth: the error message carries 401 or 403
ConnectReject(p, auth) ==
  /\ conns[p.n].st = "opening"
  /\ Commit(connectFailed([Resume(State, p) EXCEPT
                             !.conns[p.n].st = IF auth THEN "unauthorized" ELSE "failed"],
                          p.caller, auth))

\* the onopen callback of connection c
ConnOpen(c) ==
  /\ conns[c].st = "opening"
  /\ Commit([State EXCEPT !.conns[c].st = "open", !.lastActivityTime = 0,
                          !.hist.sinceInbound = 0])

\* live.connect resolves and connectSession continues
ConnectReturn(p) ==
  /\ conns[p.n].st # "opening"
  /\ Commit(connectReturned(Resume(State, p), p.caller, p.n))

Live(c) == conns[c].st \in {"open", "closing"}

\* the onerror callback of connection c
ConnError(c) ==
  /\ conns[c].st = "opening" \/ Live(c)
  /\ Commit(handleSessionError(State))

\* the onclose callback of connection c
ConnClose(c, reason) ==
  /\ Live(c)
  /\ Commit(handleSessionClose([State EXCEPT !.conns[c].st = "closed"], reason))

\* the onmessage callback of connection c
ConnMessage(c, m) ==
  /\ Live(c)
  /\ Commit(Observe(State, onmessage(State, m), FALSE, m))

\* the onmessage callback of connection c for a go-away warning, with the
\* connection that delivered it noted in the history
ConnWarning(c, m) ==
  /\ Live(c) /\ m.goAway # NoTimer
  /\ Commit(Observe(State, onmessage([State EXCEPT !.hist.warned = c], m), FALSE, m))

\* a backoff timer fires
BackoffFire(p) ==
  /\ p.left = 0
  /\ Commit(reconnectSession(Resume(State, p)))

\* the callback of handleGoAway's timer
goAwayTimeout(s) == IF isSessionActive(s) THEN reconnectSession(s) ELSE s

GoAwayFire(p) ==
  /\ p.left = 0
  /\ LET s == Result(goAwayTimeout(Resume(State, p)), "goAwayTimeout", "fired")
     IN Commit([Observe(State, s, FALSE, [NoMsg EXCEPT !.goAway = p.n])
                  EXCEPT !.out.age = p.age])

\* the health-check interval fires
HealthTick ==
  /\ healthCheckInterval = 0
  /\ Commit(checkSessionHealth([State EXCEPT !.healthCheckInterval = HealthCheckPeriod]))

\* the token refresh timer fires
RefreshFire ==
  /\ tokenRefreshInterval = 0
  /\ LET s == refreshToken([State EXCEPT !.tokenRefreshInterval = NoTimer])
     IN Commit(Observe(State, Result(s, "refreshTimer", "fired"), FALSE, NoMsg))

\* disconnectSession() up to its await of session.close(), or to its end
disconnectSession(s) ==
  LET c == s.currentSession.conn
  IN IF HasSession(s)
     THEN Suspend(IF s.conns[c].st = "open" THEN [s EXCEPT !.conns[c].st = "closing"] ELSE s,
                  P("close", "user", 0, c))
     ELSE Result(cleanupSession([s EXCEPT !.hist.closed = "stopped", !.hist.stops = @ + 1]),
                 "disconnectSession", "ok")

\* the application calls disconnectSession(), maybe while an earlier call is
\* awaiting session.close()
Disconnect ==
  LET s == [State EXCEPT !.hist.nDisconnect = @ + 1,
                         !.hist.overlapped = @ \/ Pend("close") # {}]
  IN Commit(Observe(State, disconnectSession(s), FALSE, NoMsg))

\* session.close() settled: disconnectSession runs cleanupSession
DisconnectDone(p) ==
  LET s == [Resume(State, p) EXCEPT !.hist.closed = "stopped", !.hist.stops = @ + 1]
  IN Commit(Observe(State, Result(cleanupSession(s), "disconnectSession", "ok"),
                    FALSE, NoMsg))

SendAudio(fails) == Commit(Observe(State, sendAudioChunk(State, fails), TRUE, NoMsg))
SendVideo(fails) == Commit(Observe(State, sendVideoFrame(State, fails), FALSE, NoMsg))
SendMultimodal(audio, video, fails) ==
  Commit(Observe(State, sendMultimodalInput(State, audio, video, fails), audio, NoMsg))
SendText(fails) == Commit(Observe(State, sendTextMessage(State, fails), FALSE, NoMsg))

\* a timer that has waited d ms more: once due it stays due until its callback
\* runs, which may be later than the moment it was armed for
Elapse(p, d) ==
  IF IsTimer(p) THEN [p EXCEPT !.left = Max(0, @ - d), !.age = @ + d] ELSE p

\* d ms pass with no task running.  A timer that becomes due on the way stays
\* pending: its callback is a later step, taken at once or after more time has
\* passed
Tick(d) ==
  /\ d > 0
  /\ Commit([State EXCEPT
       !.pending = [q \in {Elapse(p, d) : p \in DOMAIN pending} |->
                      BagSize(pending, {p \in DOMAIN pending : Elapse(p, d) = q})],
       !.healthCheckInterval = IF @ = NoTimer THEN @ ELSE Max(0, @ - d),
       !.tokenRefreshInterval = IF @ = NoTimer THEN @ ELSE Max(0, @ - d),
       !.tokenExpiresAt = IF @ = NoExpiry THEN @ ELSE Max(0, @ - d),
       !.lastActivityTime = Min(@ + d, inactivityTimeout + 1),
       !.hist.sinceInbound = Min(@ + d, 2 * inactivityTimeout),
       !.hist.issuedLeft = IF @ = NoExpiry THEN @ ELSE Max(0, @ - d),
       !.now = @ + d])

----------------------------------------------------------------------------
(* The capture pairing pipeline (MediaService) *)

\* A video frame is the number of the capture that produced it, NoFrame for null.
\* media: the object's fields, what the browser holds for it (timers, recorders,
\* event handlers, continuations) and the history: frames captured, chunks
\* delivered, startCapture calls, and the MediaInput the callback received in the
\* last step, if any
NoFrame == 0
NoInput == [chunk |-> 0, video |-> NoFrame, at |-> 0, slot |-> NoFrame]

(* stream: this.stream and this.videoElement (set together, cleared together) *)
(* canvas: this.canvas and this.context                                       *)
(* closed: this.audioContext.state is "closed"                                *)
(* armed: the video element's onloadedmetadata resolves a suspended           *)
(*   startCapture; loaded: the element has dispatched loadedmetadata (an      *)
(*   element does so once); orphans: elements replaced by requestPermissions  *)
(*   whose handler resolves a suspended startCapture and that have not        *)
(*   dispatched the event; ready: the startCapture calls such handlers hold   *)
(* intervals: frame timers running; recorders: recorders recording;           *)
(* streamRecorders: those of them that record this.stream; recorderOnStream:  *)
(*   this.mediaRecorder was made for this.stream; flush: stopped recorders    *)
(*   that have their last dataavailable to deliver                            *)
(* encoding: ondataavailable callbacks awaiting blobToBase64: the chunk and   *)
(*   the number of frames captured when it arrived                            *)
(* tasks: cleanup() calls awaiting audioContext.close() and restartCapture()  *)
(*   calls awaiting getUserMedia; cleanups: cleanup() and switchCamera() calls*)
InitMedia ==
  [stream |-> FALSE, canvas |-> TRUE, audioContext |-> FALSE, closed |-> FALSE,
   isCapturing |-> FALSE,
   frameInterval |-> FALSE, mediaRecorder |-> "null", onMediaInput |-> FALSE,
   currentVideoFrame |-> NoFrame, intervals |-> 0, recorders |-> 0,
   streamRecorders |-> 0, recorderOnStream |-> FALSE, flush |-> 0, ready |-> 0,
   armed |-> FALSE, loaded |-> FALSE, orphans |-> 0, tasks |-> EmptyBag,
   cleanups |-> 0, encoding |-> {}, captured |-> 0, chunks |-> 0, starts |-> 0,
   emitted |-> NoInput, threw |-> FALSE, dropped |-> FALSE]

\* a continuation of the media service: kind "close" (cleanup awaiting
\* audioContext.close()) or "permissions" (restartCapture awaiting
\* requestPermissions); caller "cleanup" or "restart"; resume: restartCapture's
\* wasCapturing && currentCallback
Task(kind, caller, resume) == [kind |-> kind, caller |-> caller, resume |-> resume]

\* requestPermissions() after its await of getUserMedia; outcome: "granted" (the
\* stream, a new video element and a new AudioContext), "refused" (getUserMedia
\* rejects) or "noAudioContext" (the AudioContext constructor throws: the stream
\* and the element stay and the call reports no permissions)
requestPermissions(m, outcome) ==
  IF outcome = "refused" THEN m
  ELSE [m EXCEPT !.stream = TRUE,
                 !.audioContext = IF outcome = "granted" THEN TRUE ELSE @,
                 !.closed = IF outcome = "granted" THEN FALSE ELSE @,
                 !.orphans = IF m.armed /\ ~m.loaded THEN @ + 1 ELSE @,
                 !.armed = FALSE, !.loaded = FALSE,
                 !.streamRecorders = 0, !.recorderOnStream = FALSE]

\* startCapture() up to its await of loadedmetadata; it throws when not
\* initialized.  The handler it assigns replaces the element's earlier one
startCapture(m) ==
  IF ~m.stream \/ ~m.canvas THEN [m EXCEPT !.threw = TRUE]
  ELSE [m EXCEPT !.onMediaInput = TRUE, !.isCapturing = TRUE,
                 !.ready = IF m.armed THEN @ ELSE @ + 1, !.armed = TRUE]

\* startAudioRecording(); outcome: "recording", "noRecorder" (the MediaRecorder
\* constructor throws) or "noStart" (its start() throws); the catch logs
startAudioRecording(m, outcome) ==
  IF ~m.stream \/ ~m.audioContext \/ outcome = "noRecorder" THEN m
  ELSE IF outcome = "noStart"
       THEN [m EXCEPT !.mediaRecorder = "inactive", !.recorderOnStream = TRUE]
       ELSE [m EXCEPT !.mediaRecorder = "recording", !.recorderOnStream = TRUE,
                      !.recorders = @ + 1, !.streamRecorders = @ + 1]

\* startCapture() after loadedmetadata: the frame timer, then the recorder
captureReady(m, outcome) ==
  startAudioRecording([m EXCEPT !.ready = @ - 1, !.frameInterval = TRUE,
                                !.intervals = @ + 1], outcome)

\* captureVideoFrame(); fails: drawImage or toDataURL throws
captureVideoFrame(m, fails) ==
  IF ~m.stream \/ ~m.canvas \/ ~m.isCapturing \/ fails THEN m
  ELSE [m EXCEPT !.captured = @ + 1, !.currentVideoFrame = m.captured + 1]

\* ondataavailable up to its await of blobToBase64; size: event.data.size.
\* dropped: a chunk with data fell through the guard and nothing was done with it
ondataavailable(m, size) ==
  LET m1 == [m EXCEPT !.chunks = @ + 1]
  IN IF size > 0 /\ m.currentVideoFrame # NoFrame /\ m.onMediaInput
     THEN [m1 EXCEPT !.encoding = @ \cup {[chunk |-> m1.chunks, at |-> m.captured]}]
     ELSE [m1 EXCEPT !.dropped = size > 0]

\* ondataavailable after blobToBase64 resolved: the frame is read now; calling a
\* null callback throws into the handler's catch
encoded(m, e) ==
  LET m1 == [m EXCEPT !.encoding = @ \ {e}]
  IN IF m.onMediaInput
     THEN [m1 EXCEPT !.emitted = [chunk |-> e.chunk, video |-> m.currentVideoFrame,
                                  at |-> e.at, slot |-> m.currentVideoFrame]]
     ELSE m1

\* stopCapture()
stopCapture(m) ==
  LET m1 == IF m.frameInterval
            THEN [m EXCEPT !.frameInterval = FALSE, !.intervals = @ - 1] ELSE m
      m2 == IF m1.mediaRecorder = "recording"
            THEN [m1 EXCEPT !.mediaRecorder = "inactive", !.recorders = @ - 1,
                            !.streamRecorders = IF m1.recorderOnStream THEN @ - 1 ELSE @,
                            !.flush = @ + 1]
            ELSE m1
  IN [m2 EXCEPT !.isCapturing = FALSE, !.onMediaInput = FALSE,
                !.currentVideoFrame = NoFrame]

\* cleanup() after the AudioContext is dealt with
cleanupDone(m) ==
  [m EXCEPT !.mediaRecorder = "null", !.onMediaInput = FALSE,
            !.currentVideoFrame = NoFrame]

\* what follows cleanup() in its caller: restartCapture calls
\* requestPermissions() and awaits getUserMedia
afterCleanup(m, t) ==
  IF t.caller = "restart"
  THEN [m EXCEPT !.tasks = BagAdd(@, Task("permissions", "restart", t.resume))]
  ELSE m

\* cleanup(); t: the continuation it leaves when it awaits audioContext.close().
\* stopCapture, then the tracks of this.stream are stopped (which stops the
\* recorders recording it) and the video element and the canvas are removed;
\* close() is skipped on a context whose state is "closed".  eager: the
\* context's state is "closed" from the close() call on, not only once the
\* promise has settled
cleanup(m, t, eager) ==
  LET m1 == stopCapture(m)
      m2 == [m1 EXCEPT !.stream = FALSE, !.canvas = FALSE,
                       !.flush = @ + m1.streamRecorders,
                       !.recorders = @ - m1.streamRecorders,
                       !.streamRecorders = 0, !.recorderOnStream = FALSE,
                       !.ready = IF m1.armed THEN @ - 1 ELSE @,
                       !.armed = FALSE, !.loaded = FALSE]
  IN IF m2.audioContext /\ ~m2.closed
     THEN [m2 EXCEPT !.tasks = BagAdd(@, t), !.closed = eager]
     ELSE afterCleanup(cleanupDone(m2), t)

\* a step of the media service: the session service is not involved
Media(m) ==
  /\ media' = m
  /\ UNCHANGED << currentSession, sessionHandle, reconnectAttempts, healthCheckInterval,
                  lastActivityTime, currentToken, tokenExpiresAt, tokenRefreshInterval,
                  isRefreshingToken, ai, pending, conns, nFetch, out, sent, now, hist >>

\* what the step starts from: the last step's MediaInput is no longer the last
Fresh == [media EXCEPT !.emitted = NoInput, !.threw = FALSE, !.dropped = FALSE]

RequestPermissions(outcome) == Media(requestPermissions(Fresh, outcome))
StartCapture == Media(startCapture([Fresh EXCEPT !.starts = @ + 1]))

\* the video element dispatches loadedmetadata (an element does so once): its
\* handler, if one is waiting, resumes startCapture
LoadedMetadata(outcome) ==
  /\ media.stream /\ ~media.loaded
  /\ LET m == [Fresh EXCEPT !.loaded = TRUE, !.armed = FALSE]
     IN Media(IF media.armed THEN captureReady(m, outcome) ELSE m)

\* a replaced video element dispatches loadedmetadata: its handler plays
\* this.videoElement (it throws when there is none) and resumes startCapture
OrphanLoadedMetadata(outcome) ==
  /\ media.orphans > 0
  /\ LET m == [Fresh EXCEPT !.orphans = @ - 1]
     IN Media(IF media.stream THEN captureReady(m, outcome) ELSE m)

FrameTick(fails) == media.intervals > 0 /\ Media(captureVideoFrame(Fresh, fails))
DataAvailable(size) == media.recorders > 0 /\ Media(ondataavailable(Fresh, size))
LastData(size) ==
  media.flush > 0 /\ Media(ondataavailable([Fresh EXCEPT !.flush = @ - 1], size))
EncodeDone(e) == Media(encoded(Fresh, e))

\* blobToBase64 rejected: the handler's catch logs and drops the chunk
EncodeFail(e) == Media([Fresh EXCEPT !.encoding = @ \ {e}])

StopCapture == Media(stopCapture(Fresh))
Cleanup(eager) ==
  Media(cleanup([Fresh EXCEPT !.cleanups = @ + 1], Task("close", "cleanup", FALSE), eager))

\* switchCamera(): restartCapture() up to its first await
SwitchCamera(eager) ==
  Media(cleanup(stopCapture([Fresh EXCEPT !.cleanups = @ + 1]),
                Task("close", "restart", media.isCapturing /\ media.onMediaInput), eager))

\* audioContext.close() resolved: cleanup() drops the context and finishes
CloseResolved(t) ==
  Media(afterCleanup(cleanupDone([Fresh EXCEPT !.tasks = BagDel(@, t),
                                               !.audioContext = FALSE,
                                               !.closed = FALSE]), t))

\* audioContext.close() rejected: cleanup() rejects where it is, and so does the
\* restartCapture() that awaited it
CloseRejected(t) == Media([Fresh EXCEPT !.tasks = BagDel(@, t), !.threw = TRUE])

\* restartCapture() after requestPermissions(): capture is started again with
\* the callback it had
Restarted(t, outcome) ==
  LET m == requestPermissions([Fresh EXCEPT !.tasks = BagDel(@, t)], outcome)
  IN Media(IF outcome = "granted" /\ t.resume
           THEN startCapture([m EXCEPT !.starts = @ + 1])
           ELSE m)

\* the callback the application gives to startCapture: it sends the pair with
\* sendMultimodalInput and catches what the send throws
onMediaInput(s, input, fails) ==
  LET r == sendMultimodalInput(s, TRUE, input.video # NoFrame, fails)
  IN IF r.out.res = "sent"
     THEN [r EXCEPT !.hist.transmitted = @ \cup {input.chunk}]
     ELSE r

\* blobToBase64 resolved with the application's callback installed: the
\* MediaInput is built and handed to the callback in the same task
EncodeDoneSend(e, fails) ==
  LET m == encoded(Fresh, e)
  IN /\ media' = m
     /\ IF m.emitted # NoInput
        THEN CommitSession(Observe(State, onMediaInput(State, m.emitted, fails),
                                   TRUE, NoMsg))
        ELSE CommitSession([State EXCEPT !.out = out])

----------------------------------------------------------------------------

Init ==
  /\ currentSession = NoSession
  /\ sessionHandle = NoHandle
  /\ reconnectAttempts = 0
  /\ healthCheckInterval = HealthCheckPeriod
  /\ lastActivityTime = 0
  /\ currentToken = NoToken
  /\ tokenExpiresAt = NoExpiry
  /\ tokenRefreshInterval = NoTimer
  /\ isRefreshingToken = FALSE
  /\ ai = NoToken
  /\ pending = EmptyBag
  /\ conns = << >>
  /\ nFetch = 0
  /\ out = NoOut
  /\ sent = 0
  /\ now = 0
  /\ hist = [nUser |-> 0, nDisconnect |-> 0, attempts |-> 0,
             exhausted |-> 0, closed |-> "no", lastAccepted |-> NoHandle,
             msgThrew |-> FALSE, opened |-> FALSE, issuedLeft |-> NoExpiry,
             stops |-> 0, overlapped |-> FALSE, sinceInbound |-> 0,
             failed |-> 0, transmitted |-> {}, warned |-> NoConn, busy |-> "no"]
  /\ media = InitMedia


\* what a specification allows of one run
Limits(B) ==
  /\ Len(conns) <= B.conns
  /\ nFetch <= B.tokens
  /\ hist.nUser <= B.user
  /\ hist.nDisconnect <= B.disconnects
  /\ sent <= B.sends
  /\ BagSize(pending, {p \in DOMAIN pending : p.kind = "goAway"}) <= B.goAway
  /\ now <= B.horizon
  /\ "pending" \in DOMAIN B => BagSize(pending, DOMAIN pending) <= B.pending

\* env: what a specification lets the collaborators do: the lifetimes of the tokens
\* the issuer returns, whether connect rejections are authentication failures, the
\* close reasons, whether a connection reports errors and closes before
\* live.connect has returned it, and the limits of a run
Within(env) == Limits(env.limits)'

Established(env, c) == env.early \/ conns[c].returned

\* the delays after which a specification lets the next task run: up to the
\* moment any pending timer or the validity of the token is due, which is late
\* for the timers due before it, or one of the specification's own steps, which
\* may end between two deadlines
Delays(env) ==
  { d \in {p.left : p \in {q \in DOMAIN pending : IsTimer(q)}}
           \cup {healthCheckInterval, tokenRefreshInterval, tokenExpiresAt - bufferTime}
           \cup env.steps : d > 0 }

\* the tasks every specification has: the application's calls of connectSession()
\* and the session's own continuations and timers
Core(env) ==
  \/ UserConnect /\ Within(env)
  \/ \E p \in Pend("fetch") : \E ttl \in env.lifetimes : FetchOk(p, ttl) /\ Within(env)
  \/ \E p \in Pend("fetch") : FetchFail(p) /\ Within(env)
  \/ \E p \in Pend("connect") : \E auth \in env.auth : ConnectReject(p, auth) /\ Within(env)
  \/ \E p \in Pend("connect") : ConnectReturn(p) /\ Within(env)
  \/ \E c \in DOMAIN conns : ConnOpen(c) /\ Within(env)
  \/ \E c \in DOMAIN conns : Established(env, c) /\ ConnError(c) /\ Within(env)
  \/ \E c \in DOMAIN conns : \E r \in env.reasons :
       Established(env, c) /\ ConnClose(c, r) /\ Within(env)
  \/ \E p \in Pend("backoff") : BackoffFire(p) /\ Within(env)
  \/ \E d \in Delays(env) : Tick(d) /\ Within(env)

----------------------------------------------------------------------------
(* Spec: the send path.  The application connects once and sends audio,       *)
(* video, multimodal and text inputs in every state; the remote accepts every *)
(* connect attempt, reports generation complete at any time and errors and    *)
(* closes once a connection is established; the issuer answers; the session   *)
(* is re-established at most once.  Any task runs at 0 ms, 400 ms or 800 ms.  *)

SendEnv == [lifetimes |-> {600000}, auth |-> BOOLEAN, reasons |-> {"ABORTED", ""},
            early |-> FALSE, steps |-> {400},
            limits |-> [conns |-> 2, tokens |-> 1, user |-> 1, disconnects |-> 0,
                        sends |-> SendMaxSends, goAway |-> 0, horizon |-> SendHorizon]]

Sends(env) ==
  \/ \E f \in BOOLEAN : SendAudio(f) /\ Within(env)
  \/ \E f \in BOOLEAN : SendVideo(f) /\ Within(env)
  \/ \E a, v, f \in BOOLEAN : SendMultimodal(a, v, f) /\ Within(env)
  \/ \E f \in BOOLEAN : SendText(f) /\ Within(env)

Next ==
  \/ UserConnect /\ Within(SendEnv)
  \/ \E p \in Pend("fetch") : \E ttl \in SendEnv.lifetimes :
       FetchOk(p, ttl) /\ Within(SendEnv)
  \/ \E p \in Pend("connect") : ConnectReturn(p) /\ Within(SendEnv)
  \/ \E c \in DOMAIN conns : ConnOpen(c) /\ Within(SendEnv)
  \/ \E c \in DOMAIN conns : Established(SendEnv, c) /\ ConnError(c) /\ Within(SendEnv)
  \/ \E c \in DOMAIN conns : \E r \in SendEnv.reasons :
       Established(SendEnv, c) /\ ConnClose(c, r) /\ Within(SendEnv)
  \/ \E d \in Delays(SendEnv) : Tick(d) /\ Within(SendEnv)
  \/ Sends(SendEnv)
  \/ \E c \in DOMAIN conns : ConnMessage(c, GenerationComplete) /\ Within(SendEnv)

Spec == Init /\ [][Next]_vars

----------------------------------------------------------------------------
(* SpecReconnect: reconnection.  The application connects once; an            *)
(* established connection reports errors and closes, a connect attempt is     *)
(* accepted or rejected, and a backoff timer runs when it is due or later:    *)
(* the clock moves to the due time of any pending timer or on by 3.5 s.       *)

ReconnectEnv == [lifetimes |-> {600000}, auth |-> {FALSE}, reasons |-> {"ABORTED", ""},
                 early |-> FALSE, steps |-> {3500},
                 limits |-> [conns |-> ReconnectMaxConns, tokens |-> 2, user |-> 1,
                             disconnects |-> 0, sends |-> 0, goAway |-> 0,
                             horizon |-> ReconnectHorizon]]

NextReconnect == Core(ReconnectEnv)

SpecReconnect == Init /\ [][NextReconnect]_vars

----------------------------------------------------------------------------
(* SpecResume: resumption handles.  The application connects once; the remote *)
(* sends resumption updates (resumable or not, with or without a handle) and  *)
(* accepts every connect attempt and reports errors and aborted closes; the   *)
(* issuer answers.  Any task runs at 0 ms or 400 ms later.                    *)

ResumeEnv == [lifetimes |-> {600000}, auth |-> {FALSE}, reasons |-> {"ABORTED"},
              early |-> FALSE, steps |-> {400},
              limits |-> [conns |-> ResumeMaxConns, tokens |-> 1, user |-> 1,
                          disconnects |-> 0, sends |-> 0, goAway |-> 0,
                          horizon |-> ResumeHorizon]]

Update(resumable, h) == [NoMsg EXCEPT !.update = TRUE, !.resumable = resumable,
                                      !.newHandle = h]

ResumeMsgs == {Update(r, h) : r \in BOOLEAN, h \in Handles} \cup {Update(TRUE, NoHandle)}

NextResume ==
  \/ UserConnect /\ Within(ResumeEnv)
  \/ \E p \in Pend("fetch") : \E ttl \in ResumeEnv.lifetimes :
       FetchOk(p, ttl) /\ Within(ResumeEnv)
  \/ \E p \in Pend("connect") : ConnectReturn(p) /\ Within(ResumeEnv)
  \/ \E c \in DOMAIN conns : ConnOpen(c) /\ Within(ResumeEnv)
  \/ \E c \in DOMAIN conns :
       Established(ResumeEnv, c) /\ ConnError(c) /\ Within(ResumeEnv)
  \/ \E c \in DOMAIN conns : \E r \in ResumeEnv.reasons :
       Established(ResumeEnv, c) /\ ConnClose(c, r) /\ Within(ResumeEnv)
  \/ \E d \in Delays(ResumeEnv) : Tick(d) /\ Within(ResumeEnv)
  \/ \E c \in DOMAIN conns : \E m \in ResumeMsgs : ConnMessage(c, m) /\ Within(ResumeEnv)

SpecResume == Init /\ [][NextResume]_vars

----------------------------------------------------------------------------
(* SpecGoAway: termination warnings.  The application connects once; the      *)
(* remote accepts every connect attempt, sends go-away warnings with 5 s,    *)
(* 30 s and 30.5 s left, every 7 s or when a timer is due, and reports errors *)
(* and closes; a go-away timer runs when it is due or later.                  *)

GoAwayEnv == [lifetimes |-> {600000}, auth |-> {FALSE}, reasons |-> {"ABORTED", ""},
              early |-> FALSE, steps |-> {7000},
              limits |-> [conns |-> GoAwayMaxConns, tokens |-> 1, user |-> 1,
                          disconnects |-> 0, sends |-> 0, goAway |-> GoAwayMaxTimers,
                          horizon |-> GoAwayHorizon]]

GoAway(timeLeft) == [NoMsg EXCEPT !.goAway = timeLeft]

TimeLefts == {5000, 30000, 30500}

NextGoAway ==
  \/ UserConnect /\ Within(GoAwayEnv)
  \/ \E p \in Pend("fetch") : \E ttl \in GoAwayEnv.lifetimes :
       FetchOk(p, ttl) /\ Within(GoAwayEnv)
  \/ \E p \in Pend("connect") : ConnectReturn(p) /\ Within(GoAwayEnv)
  \/ \E c \in DOMAIN conns : ConnOpen(c) /\ Within(GoAwayEnv)
  \/ \E c \in DOMAIN conns : Established(GoAwayEnv, c) /\ ConnError(c) /\ Within(GoAwayEnv)
  \/ \E c \in DOMAIN conns : \E r \in GoAwayEnv.reasons :
       Established(GoAwayEnv, c) /\ ConnClose(c, r) /\ Within(GoAwayEnv)
  \/ \E d \in Delays(GoAwayEnv) : Tick(d) /\ Within(GoAwayEnv)
  \/ \E c \in DOMAIN conns : \E T \in TimeLefts :
       ConnMessage(c, GoAway(T)) /\ Within(GoAwayEnv)
  \/ \E p \in Pend("goAway") : GoAwayFire(p) /\ Within(GoAwayEnv)

SpecGoAway == Init /\ [][NextGoAway]_vars

----------------------------------------------------------------------------
(* SpecToken: the credential store.  The application calls connectSession()   *)
(* up to twice, also while an earlier call is pending; the issuer answers or  *)
(* fails, with tokens that need a refresh after 1 s or at once; the refresh   *)
(* timer and ensureValidToken's wait run when due or later, and any task runs *)
(* every half second or when a timer is due.                                  *)

TokenEnv == [lifetimes |-> {181000, 150000}, auth |-> {FALSE}, reasons |-> {"ABORTED"},
             early |-> FALSE, steps |-> {500},
             limits |-> [conns |-> 2, tokens |-> TokenMaxFetches, user |-> TokenMaxCalls,
                         disconnects |-> 0, sends |-> 0, goAway |-> 0,
                         horizon |-> TokenHorizon, pending |-> TokenMaxPending]]

NextToken ==
  \/ Core(TokenEnv)
  \/ \E p \in Pend("wait") : WaitDone(p) /\ Within(TokenEnv)
  \/ RefreshFire /\ Within(TokenEnv)

SpecToken == Init /\ [][NextToken]_vars

----------------------------------------------------------------------------
(* SpecAuth: rejected credentials.  The application calls connectSession() up *)
(* to twice; the remote accepts a connect attempt or rejects it with 401, and *)
(* reports errors and aborted closes; the issuer answers, with tokens that    *)
(* expire in ten minutes or in one, or fails; the one-second timers run when  *)
(* due or 200 ms late.                                                        *)

AuthEnv == [lifetimes |-> {600000, 60000}, auth |-> {TRUE}, reasons |-> {"ABORTED"},
            early |-> FALSE, steps |-> {1200},
            limits |-> [conns |-> AuthMaxConns, tokens |-> AuthMaxFetches,
                        user |-> AuthMaxCalls, disconnects |-> 0, sends |-> 0,
                        goAway |-> 0, horizon |-> AuthHorizon,
                        pending |-> AuthMaxPending]]

NextAuth ==
  \/ Core(AuthEnv)
  \/ \E p \in Pend("wait") : WaitDone(p) /\ Within(AuthEnv)

SpecAuth == Init /\ [][NextAuth]_vars

\* SpecDirect: as SpecAuth, and the application also calls the public
\* requestNewToken() itself, which the interface of the manager does not offer
SpecDirect == Init /\ [][NextAuth \/ (UserRequestToken /\ Within(AuthEnv))]_vars

----------------------------------------------------------------------------
(* SpecHealth: the health monitor on a silent connection.  The application    *)
(* connects once and sends a video frame up to twice, at any time; the remote *)
(* accepts every connect attempt, sends a message at any time and reports no  *)
(* error and no close; the issuer answers with a token that expires in half  *)
(* an hour; the health check runs every 30 s or later, for seven and a half   *)
(* minutes, and any task runs every 45 s or when a check is due.              *)

HealthEnv == [lifetimes |-> {1800000}, auth |-> {FALSE}, reasons |-> {},
              early |-> FALSE, steps |-> {45000},
              limits |-> [conns |-> HealthMaxConns, tokens |-> 1, user |-> 1,
                          disconnects |-> 0, sends |-> HealthMaxSends, goAway |-> 0,
                          horizon |-> HealthHorizon]]

NextHealth ==
  \/ UserConnect /\ Within(HealthEnv)
  \/ \E p \in Pend("fetch") : \E ttl \in HealthEnv.lifetimes :
       FetchOk(p, ttl) /\ Within(HealthEnv)
  \/ \E p \in Pend("connect") : ConnectReturn(p) /\ Within(HealthEnv)
  \/ \E c \in DOMAIN conns : ConnOpen(c) /\ Within(HealthEnv)
  \/ \E c \in DOMAIN conns :
       Established(HealthEnv, c) /\ ConnMessage(c, NoMsg) /\ Within(HealthEnv)
  \/ SendVideo(FALSE) /\ Within(HealthEnv)
  \/ HealthTick /\ Within(HealthEnv)
  \/ \E d \in Delays(HealthEnv) : Tick(d) /\ Within(HealthEnv)

SpecHealth == Init /\ [][NextHealth]_vars

----------------------------------------------------------------------------
(* SpecExpiry: an ageing token.  The application connects once; the issuer    *)
(* answers with a token that expires in 181 s, or fails; the remote accepts   *)
(* every connect attempt and reports errors and aborted closes; the refresh   *)
(* timer and the health check run when due or later, for 61 s: a token that   *)
(* was not refreshed is then inside the validity buffer.                      *)

ExpiryEnv == [lifetimes |-> {181000}, auth |-> {FALSE}, reasons |-> {"ABORTED"},
              early |-> FALSE, steps |-> {20000},
              limits |-> [conns |-> ExpiryMaxConns, tokens |-> ExpiryMaxFetches,
                          user |-> 1, disconnects |-> 0, sends |-> 0, goAway |-> 0,
                          horizon |-> ExpiryHorizon, pending |-> ExpiryMaxPending]]

NextExpiry ==
  \/ UserConnect /\ Within(ExpiryEnv)
  \/ \E p \in Pend("fetch") : \E ttl \in ExpiryEnv.lifetimes :
       FetchOk(p, ttl) /\ Within(ExpiryEnv)
  \/ \E p \in Pend("fetch") : FetchFail(p) /\ Within(ExpiryEnv)
  \/ \E p \in Pend("connect") : ConnectReturn(p) /\ Within(ExpiryEnv)
  \/ \E c \in DOMAIN conns : ConnOpen(c) /\ Within(ExpiryEnv)
  \/ \E c \in DOMAIN conns : Established(ExpiryEnv, c) /\ ConnError(c) /\ Within(ExpiryEnv)
  \/ \E c \in DOMAIN conns : \E r \in ExpiryEnv.reasons :
       Established(ExpiryEnv, c) /\ ConnClose(c, r) /\ Within(ExpiryEnv)
  \/ RefreshFire /\ Within(ExpiryEnv)
  \/ HealthTick /\ Within(ExpiryEnv)
  \/ \E d \in Delays(ExpiryEnv) : Tick(d) /\ Within(ExpiryEnv)

SpecExpiry == Init /\ [][NextExpiry]_vars

----------------------------------------------------------------------------
(* SpecRetry: direct calls during reconnection.  The application calls        *)
(* connectSession() up to twice, at any time; the remote accepts or rejects   *)
(* connect attempts and reports errors and aborted closes; the issuer answers *)
(* one request; backoff timers run when due or later.                         *)

RetryEnv == [lifetimes |-> {600000}, auth |-> {FALSE}, reasons |-> {"ABORTED"},
             early |-> FALSE, steps |-> {500},
             limits |-> [conns |-> RetryMaxConns, tokens |-> 1, user |-> RetryMaxCalls,
                         disconnects |-> 0, sends |-> 0, goAway |-> 0,
                         horizon |-> RetryHorizon]]

NextRetry == Core(RetryEnv)

SpecRetry == Init /\ [][NextRetry]_vars

----------------------------------------------------------------------------
(* SpecStop: stopping.  The application connects once and calls               *)
(* disconnectSession() once, in any state; the remote sends a resumption      *)
(* handle with a go-away of 11 s left, reports errors and aborted closes and  *)
(* accepts or rejects connect attempts; the issuer answers or fails; the one- *)
(* second timers run when due or 200 ms late.                                 *)

StopEnv == [lifetimes |-> {600000}, auth |-> {FALSE}, reasons |-> {"ABORTED"},
            early |-> FALSE, steps |-> {1200},
            limits |-> [conns |-> StopMaxConns, tokens |-> StopMaxFetches, user |-> 1,
                        disconnects |-> 1, sends |-> 0, goAway |-> 1,
                        horizon |-> StopHorizon]]

\* one message carrying a resumption handle and a go-away with 11 s left
StopMsgs == {[Update(TRUE, 1) EXCEPT !.goAway = 11000]}

NextStop ==
  \/ Core(StopEnv)
  \/ Disconnect /\ Within(StopEnv)
  \/ \E p \in Pend("close") : DisconnectDone(p) /\ Within(StopEnv)
  \/ \E c \in DOMAIN conns : \E m \in StopMsgs :
       Established(StopEnv, c) /\ ConnMessage(c, m) /\ Within(StopEnv)
  \/ \E p \in Pend("goAway") : GoAwayFire(p) /\ Within(StopEnv)

SpecStop == Init /\ [][NextStop]_vars

----------------------------------------------------------------------------
(* SpecStopTwice: repeated stops.  As SpecStop without inbound messages, and  *)
(* the application calls disconnectSession() up to twice, also while an       *)
(* earlier call is still closing the session.                                 *)

StopTwiceEnv == [lifetimes |-> {600000}, auth |-> {FALSE}, reasons |-> {"ABORTED"},
                 early |-> FALSE, steps |-> {1200},
                 limits |-> [conns |-> 3, tokens |-> 2, user |-> 1,
                             disconnects |-> StopTwiceMaxDisconnects, sends |-> 0,
                             goAway |-> 0, horizon |-> StopHorizon]]

NextStopTwice ==
  \/ Core(StopTwiceEnv)
  \/ Disconnect /\ Within(StopTwiceEnv)
  \/ \E p \in Pend("close") : DisconnectDone(p) /\ Within(StopTwiceEnv)

SpecStopTwice == Init /\ [][NextStopTwice]_vars

----------------------------------------------------------------------------
(* SpecEarly: events before the return.  The tasks of SpecReconnect, and a    *)
(* connection reports errors and closes as soon as it has opened, also before *)
(* live.connect has returned it to connectSession; any task runs every half   *)
(* second or when a timer is due.                                             *)

EarlyEnv == [lifetimes |-> {600000}, auth |-> {FALSE}, reasons |-> {"ABORTED", ""},
             early |-> TRUE, steps |-> {500},
             limits |-> [conns |-> EarlyMaxConns, tokens |-> 1, user |-> 1,
                         disconnects |-> 0, sends |-> 0, goAway |-> 0,
                         horizon |-> EarlyHorizon]]

NextEarly == Core(EarlyEnv)

SpecEarly == Init /\ [][NextEarly]_vars

----------------------------------------------------------------------------
(* SpecChain: short-lived tokens around a stop.  The issuer returns tokens    *)
(* with 150 s left, inside the refresh lead; the application connects once    *)
(* and calls disconnectSession() once, also while a request is in flight.     *)
(* Any task runs at 0 ms or 400 ms later.                                     *)

ChainEnv == [lifetimes |-> {150000}, auth |-> {FALSE}, reasons |-> {}, early |-> FALSE,
             steps |-> {400},
             limits |-> [conns |-> ChainMaxConns, tokens |-> ChainMaxFetches, user |-> 1,
                         disconnects |-> 1, sends |-> 0, goAway |-> 0,
                         horizon |-> ChainHorizon]]

NextChain ==
  \/ UserConnect /\ Within(ChainEnv)
  \/ \E p \in Pend("fetch") : FetchOk(p, 150000) /\ Within(ChainEnv)
  \/ \E p \in Pend("fetch") : FetchFail(p) /\ Within(ChainEnv)
  \/ \E p \in Pend("connect") : ConnectReturn(p) /\ Within(ChainEnv)
  \/ \E c \in DOMAIN conns : ConnOpen(c) /\ Within(ChainEnv)
  \/ Disconnect /\ Within(ChainEnv)
  \/ \E p \in Pend("close") : DisconnectDone(p) /\ Within(ChainEnv)
  \/ \E d \in Delays(ChainEnv) : Tick(d) /\ Within(ChainEnv)

SpecChain == Init /\ [][NextChain]_vars

----------------------------------------------------------------------------
(* SpecWarned: a warned connection is replaced.  The application connects     *)
(* once; the connection of the current session delivers a go-away warning     *)
(* with 30 s left, established connections report errors, and the go-away     *)
(* timer runs when it is due or later.                                        *)

WarnedEnv == [lifetimes |-> {600000}, auth |-> {FALSE}, reasons |-> {}, early |-> FALSE, steps |-> {7000},
              limits |-> [conns |-> WarnedMaxConns, tokens |-> 1, user |-> 1,
                          disconnects |-> 0, sends |-> 0, goAway |-> 1,
                          horizon |-> WarnedHorizon]]

NextWarned ==
  \/ UserConnect /\ Within(WarnedEnv)
  \/ \E p \in Pend("fetch") : FetchOk(p, 600000) /\ Within(WarnedEnv)
  \/ \E p \in Pend("connect") : ConnectReturn(p) /\ Within(WarnedEnv)
  \/ \E c \in DOMAIN conns : ConnOpen(c) /\ Within(WarnedEnv)
  \/ \E c \in DOMAIN conns : Established(WarnedEnv, c) /\ ConnError(c) /\ Within(WarnedEnv)
  \/ \E c \in DOMAIN conns :
       c = currentSession.conn /\ ConnWarning(c, GoAway(30000)) /\ Within(WarnedEnv)
  \/ \E p \in Pend("goAway") : GoAwayFire(p) /\ Within(WarnedEnv)
  \/ \E d \in Delays(WarnedEnv) : Tick(d) /\ Within(WarnedEnv)

SpecWarned == Init /\ [][NextWarned]_vars

----------------------------------------------------------------------------
(* SpecLate: messages around a stop.  The application connects, sends audio   *)
(* and calls disconnectSession() once; a connection whose connect has         *)
(* returned delivers generation-complete messages until it has closed, also   *)
(* while it is closing and after cleanup.  Any task runs at 0 ms or 400 ms    *)
(* later.                                                                     *)

LateEnv == [lifetimes |-> {600000}, auth |-> {FALSE}, reasons |-> {""}, early |-> FALSE,
            steps |-> {400},
            limits |-> [conns |-> LateMaxConns, tokens |-> 1, user |-> LateMaxCalls,
                        disconnects |-> 1, sends |-> LateMaxSends, goAway |-> 0,
                        horizon |-> LateHorizon]]

NextLate ==
  \/ UserConnect /\ Within(LateEnv)
  \/ \E p \in Pend("fetch") : FetchOk(p, 600000) /\ Within(LateEnv)
  \/ \E p \in Pend("connect") : ConnectReturn(p) /\ Within(LateEnv)
  \/ \E c \in DOMAIN conns : ConnOpen(c) /\ Within(LateEnv)
  \/ \E c \in DOMAIN conns :
       Established(LateEnv, c) /\ ConnClose(c, "") /\ Within(LateEnv)
  \/ \E c \in DOMAIN conns :
       Established(LateEnv, c) /\ ConnMessage(c, GenerationComplete) /\ Within(LateEnv)
  \/ SendAudio(FALSE) /\ Within(LateEnv)
  \/ Disconnect /\ Within(LateEnv)
  \/ \E p \in Pend("close") : DisconnectDone(p) /\ Within(LateEnv)
  \/ \E d \in Delays(LateEnv) : Tick(d) /\ Within(LateEnv)

SpecLate == Init /\ [][NextLate]_vars

----------------------------------------------------------------------------
(* SpecMedia: the capture pipeline.  The application asks for permissions,    *)
(* starts and stops capture and cleans up; the frame timer and the recorder's *)
(* chunk timer fire at any relative rate and an encoding takes any time.      *)

MediaLimits ==
  /\ media.starts <= MediaMaxStarts
  /\ media.cleanups <= MediaMaxCleanups
  /\ media.captured <= MediaMaxFrames
  /\ media.chunks <= MediaMaxChunks

NextMedia ==
  \/ \E o \in {"granted", "refused", "noAudioContext"} :
       RequestPermissions(o) /\ MediaLimits'
  \/ StartCapture /\ MediaLimits'
  \/ \E o \in {"recording", "noRecorder", "noStart"} :
       LoadedMetadata(o) /\ MediaLimits'
  \/ \E o \in {"recording", "noRecorder", "noStart"} :
       OrphanLoadedMetadata(o) /\ MediaLimits'
  \/ \E f \in BOOLEAN : FrameTick(f) /\ MediaLimits'
  \/ \E size \in {0, 1} : DataAvailable(size) /\ MediaLimits'
  \/ \E size \in {0, 1} : LastData(size) /\ MediaLimits'
  \/ \E e \in media.encoding : EncodeDone(e) /\ MediaLimits'
  \/ \E e \in media.encoding : EncodeFail(e) /\ MediaLimits'
  \/ StopCapture /\ MediaLimits'
  \/ \E eager \in BOOLEAN : Cleanup(eager) /\ MediaLimits'
  \/ \E eager \in BOOLEAN : SwitchCamera(eager) /\ MediaLimits'
  \/ \E t \in DOMAIN media.tasks :
       t.kind = "close" /\ CloseResolved(t) /\ MediaLimits'
  \/ \E t \in DOMAIN media.tasks :
       t.kind = "close" /\ CloseRejected(t) /\ MediaLimits'
  \/ \E t \in DOMAIN media.tasks : \E o \in {"granted", "refused", "noAudioContext"} :
       t.kind = "permissions" /\ Restarted(t, o) /\ MediaLimits'

SpecMedia == Init /\ [][NextMedia]_vars

----------------------------------------------------------------------------
(* SpecPipeline: the capture pipeline feeding the session.  The application   *)
(* connects once and starts capture with a callback that sends each pair;     *)
(* frames and chunks arrive at any relative rate, an encoding takes any time, *)
(* a send fails or not, and the remote reports generation complete at any     *)
(* time.  Any task runs at 0 ms or 400 ms later.                              *)

PipelineEnv == [lifetimes |-> {600000}, auth |-> {FALSE}, reasons |-> {}, early |-> FALSE,
                steps |-> {400},
                limits |-> [conns |-> 1, tokens |-> 1, user |-> 1, disconnects |-> 0,
                            sends |-> PipelineMaxSends, goAway |-> 0,
                            horizon |-> PipelineHorizon]]

PipelineLimits ==
  /\ media.starts <= 1
  /\ media.captured <= PipelineMaxFrames
  /\ media.chunks <= PipelineMaxChunks

NextPipeline ==
  \/ UserConnect /\ Within(PipelineEnv)
  \/ \E p \in Pend("fetch") : FetchOk(p, 600000) /\ Within(PipelineEnv)
  \/ \E p \in Pend("connect") : ConnectReturn(p) /\ Within(PipelineEnv)
  \/ \E c \in DOMAIN conns : ConnOpen(c) /\ Within(PipelineEnv)
  \/ \E c \in DOMAIN conns :
       Established(PipelineEnv, c) /\ ConnMessage(c, GenerationComplete)
       /\ Within(PipelineEnv)
  \/ RequestPermissions("granted") /\ PipelineLimits'
  \/ StartCapture /\ PipelineLimits'
  \/ LoadedMetadata("recording") /\ PipelineLimits'
  \/ FrameTick(FALSE) /\ PipelineLimits'
  \/ DataAvailable(1) /\ PipelineLimits'
  \/ \E e \in media.encoding : \E f \in BOOLEAN :
       EncodeDoneSend(e, f) /\ Within(PipelineEnv)
  \/ \E d \in Delays(PipelineEnv) : Tick(d) /\ Within(PipelineEnv)

SpecPipeline == Init /\ [][NextPipeline]_vars

----------------------------------------------------------------------------
(* Properties of the send path *)

SendOps == {"sendAudioChunk", "sendVideoFrame", "sendMultimodalInput", "sendTextMessage"}

\* the state the last step's call found
PreActive == out.pre.currentSession.conn # NoConn /\ out.pre.currentSession.isConnected
PreBusy == out.pre.currentSession.isProcessing

\* C1: a send called while there is no current session, or while the current
\* session is not connected, fails with an error, does not invoke the remote send
\* operation and leaves the Busy flag and the last-activity time unchanged.
C1_SendRejectedWhenNotConnected ==
  (out.op \in SendOps /\ ~PreActive)
    => /\ out.res = "error"
       /\ sent = out.pre.sent
       /\ currentSession = out.pre.currentSession
       /\ lastActivityTime = out.pre.lastActivityTime

\* a send was rejected on a session that exists but is not connected, after time
\* has passed since the last activity
C1_Witness ==
  /\ out.op = "sendVideoFrame" /\ out.res = "error"
  /\ out.pre.currentSession.conn # NoConn /\ ~out.pre.currentSession.isConnected
  /\ lastActivityTime > 0

\* C8: while connected and Busy an audio-bearing send is dropped (no error, nothing
\* transmitted, no state change); a generation-complete message clears Busy; and an
\* audio-bearing send on a connected session that is not Busy is transmitted.
C8_BusyDropsAudioThenResumes ==
  /\ (out.op \in SendOps /\ out.audio /\ PreActive /\ PreBusy)
       => (out.res = "dropped" /\ sent = out.pre.sent /\ ~out.changed)
  /\ (out.op = "onmessage" /\ out.msg.generationComplete /\ out.res = "ok")
       => (out.pre.currentSession.conn # NoConn /\ ~currentSession.isProcessing)
  /\ (out.op \in SendOps /\ out.audio /\ PreActive /\ ~PreBusy)
       => (out.res \in {"sent", "error"} /\ sent = out.pre.sent + 1)

\* on one connection an audio-bearing send was transmitted and set isProcessing,
\* a later audio-bearing send was dropped for it, a generation-complete message
\* cleared it, and the audio-bearing send made then is the second one transmitted
C8_Witness ==
  /\ out.op = "sendMultimodalInput" /\ out.audio /\ out.res = "sent"
  /\ PreActive /\ ~PreBusy /\ currentSession.isProcessing
  /\ hist.busy = "cleared" /\ sent = 2 /\ Len(conns) = 1

----------------------------------------------------------------------------
(* Properties of reconnection *)

\* C2: once a connect has succeeded, the number of connect attempts made by
\* reconnectSession since the last successful connect never exceeds
\* maxReconnectAttempts.
C2_AttemptsNeverExceedMax == hist.opened => hist.attempts <= maxReconnectAttempts

\* C6: starting from an open connection, when reconnection is exhausted, exactly maxReconnectAttempts connect
\* attempts have been made since the last successful connect, and the manager is
\* then Closed.
C6_ExactlyMaxAttemptsThenClosed ==
  [][ (hist.opened /\ hist'.exhausted > hist.exhausted)
        => (hist.attempts = maxReconnectAttempts /\ currentSession' = NoSession) ]_vars

\* C7: once reconnection is exhausted the manager stays Closed: no session is
\* current, no timer is left, and no later step reports exhaustion again or starts
\* another connect attempt.
C7_ExhaustionIsFinal ==
  [][ hist.closed = "exhausted"
        => /\ currentSession' = NoSession
           /\ healthCheckInterval' = NoTimer /\ tokenRefreshInterval' = NoTimer
           /\ hist'.exhausted = hist.exhausted
           /\ hist'.attempts <= hist.attempts ]_vars

----------------------------------------------------------------------------
(* Properties of resumption and of termination warnings *)

\* C9: once a resumption update has been accepted, every connection that is
\* created is given the most recently accepted handle.
C9_ConnectPassesLatestHandle ==
  [][ (hist.lastAccepted # NoHandle /\ Len(conns') > Len(conns))
        => conns'[Len(conns')].handle = hist.lastAccepted ]_vars

\* a reconnect passed a handle that had replaced an earlier accepted handle
C9_Witness ==
  /\ Len(conns) = 3
  /\ conns[2].handle # NoHandle /\ conns[3].handle # conns[2].handle
  /\ conns[3].handle = hist.lastAccepted

\* the go-away timer's callback called reconnectSession
GoAwayReconnected ==
  hist.attempts > out.pre.attempts \/ hist.exhausted > out.pre.exhausted

\* C10 as stated: the timer of a warning with T seconds left is due T - 10
\* seconds after the warning was received (at once when that is past); its
\* callback runs then or later, never earlier, and reconnects if and only if
\* the session is connected when it runs.
C10_ReconnectAtTMinusTen ==
  /\ \A p \in Pend("goAway") : p.left = Max(0, (p.n - 10000) - p.age)
  /\ out.op = "goAwayTimeout"
       => /\ out.age >= out.msg.goAway - 10000
          /\ GoAwayReconnected <=> PreActive

\* C10 amended: the timer of a warning with T seconds left is due
\* max(0, floor(T) - 10) seconds after the warning was received; its callback
\* runs then or later, never earlier, and reconnects if and only if the session
\* is connected when it runs.
C10_ReconnectAtWholeSecondsMinusTen ==
  /\ \A p \in Pend("goAway") :
       p.left = Max(0, (p.n \div 1000 - 10) * 1000 - p.age)
  /\ out.op = "goAwayTimeout"
       => /\ out.age >= (out.msg.goAway \div 1000 - 10) * 1000
          /\ GoAwayReconnected <=> PreActive

\* the timer of a warning with 30.5 s left ran less than 20.5 s after the warning
\* was received, on a connected session, and reconnected
C10_Witness ==
  /\ out.op = "goAwayTimeout" /\ out.msg.goAway = 30500
  /\ out.age >= 20000 /\ out.age < 20500
  /\ PreActive /\ GoAwayReconnected

----------------------------------------------------------------------------
(* Properties of the credential store *)

\* C3: at most one issuance request (requestNewToken awaiting the endpoint) is in
\* flight at any instant.
C3_OneIssuanceRequestInFlight == BagSize(pending, Pend("fetch")) <= 1

----------------------------------------------------------------------------
(* Properties of the capture pipeline *)

\* C4: a MediaInput given to the callback carries the frame that is in the
\* latest-frame slot when it is emitted (none if the slot is empty), and never a
\* frame captured after its audio chunk arrived.
C4_FrameNotNewerThanChunk ==
  media.emitted # NoInput
    => /\ media.emitted.video = media.emitted.slot
       /\ media.emitted.video <= media.emitted.at

\* C5: at most one video frame is held (the latest-frame slot) and at most one
\* audio chunk has arrived and is neither emitted nor discarded yet.
C5_AtMostOnePendingChunk == Cardinality(media.encoding) <= 1

\* C12: an audio chunk with data that arrives while capturing, before any video
\* frame was captured, is not dropped: it goes on to be emitted without video.
C12_AudioBeforeFirstFrameIsKept ==
  (media.isCapturing /\ media.onMediaInput /\ media.captured = 0) => ~media.dropped

----------------------------------------------------------------------------
(* Properties of the proactive refresh *)

\* the refresh timer is armed for the moment the last issued token has
\* RefreshLead left, and its callback runs then or later, never before
RefreshTimerOnTime ==
  /\ (hist.issuedLeft # NoExpiry /\ hist.issuedLeft > 3 * 60 * 1000)
       => tokenRefreshInterval = hist.issuedLeft - 3 * 60 * 1000
  /\ out.op = "refreshTimer" => hist.issuedLeft <= 3 * 60 * 1000

\* C11: after a token with more than the refresh lead left was issued,
\* and with no stop since, the refresh timer is due when the token has the lead
\* left, and its callback makes a new issuance request.
C11_RefreshRequestedAtLead ==
  /\ RefreshTimerOnTime
  /\ out.op = "refreshTimer" => nFetch = out.pre.nFetch + 1

----------------------------------------------------------------------------
(* Properties of stopping *)

\* C13: once the manager is Closed, by disconnectSession or by exhaustion, no
\* token, no expiry and no resumption handle is stored, in that state and in
\* every later one.
C13_ClosedHoldsNoCredentialOrHandle ==
  hist.closed # "no"
    => currentToken = NoToken /\ tokenExpiresAt = NoExpiry /\ sessionHandle = NoHandle

\* C14: a backoff or go-away timer that was armed before a disconnectSession
\* call completed does nothing when it fires afterwards: no token request, no
\* connect attempt, no reconnection attempt.
C14_TimersArmedBeforeStopDoNothing ==
  [][ \A p \in DOMAIN pending :
        ( /\ p.kind \in {"backoff", "goAway"} /\ p.left = 0 /\ p.epoch < hist.stops
          /\ (p \notin DOMAIN pending' \/ pending'[p] < pending[p]) )
        => /\ nFetch' = nFetch
           /\ Len(conns') = Len(conns)
           /\ hist'.attempts = hist.attempts ]_vars

\* the state cleanupSession leaves: no timers of its own, no session, no token
Closed ==
  /\ currentSession = NoSession
  /\ healthCheckInterval = NoTimer /\ tokenRefreshInterval = NoTimer
  /\ reconnectAttempts = 0
  /\ currentToken = NoToken /\ tokenExpiresAt = NoExpiry
  /\ ~isRefreshingToken

\* the fields of the manager
Fields == << currentSession, sessionHandle, reconnectAttempts, healthCheckInterval,
             lastActivityTime, currentToken, tokenExpiresAt, tokenRefreshInterval,
             isRefreshingToken, ai >>

\* C15: every disconnectSession call, the first or a later one, made after or
\* while another is closing the session, returns without an error and leaves the
\* Closed state a single call leaves; a call that completes in that state
\* changes no field, and cleaning up twice is cleaning up once.
C15_StopIsIdempotent ==
  [][ /\ cleanupSession(cleanupSession(State)) = cleanupSession(State)
      /\ hist'.stops = hist.stops + 1
           => /\ out'.op = "disconnectSession" /\ out'.res = "ok"
              /\ Closed'
              /\ Closed => Fields' = Fields ]_vars

\* C15 happens: two overlapping calls have both completed
C15_Witness ==
  /\ out.op = "disconnectSession" /\ out.res = "ok"
  /\ hist.stops = 2 /\ hist.overlapped /\ Pend("close") = {}
  /\ Closed

\* C16: while the manager is Closed no connect attempt is made and no session
\* becomes current.
C16_ClosedIsTerminal ==
  [][ (hist.closed # "no" /\ hist'.closed # "no")
        => Len(conns') = Len(conns) /\ currentSession' = NoSession ]_vars

----------------------------------------------------------------------------
(* Properties of the credential store *)

\* C17: when the remote rejects a connect attempt with 401 or 403 the stored
\* token and expiry are cleared in that step; every connect attempt made later
\* uses the token that is stored then (stored by an issuance answered after the
\* rejection), which is none of the rejected ones.
C17_RejectedTokenNeverReused ==
  [][ /\ Rejected(conns') # Rejected(conns)
           => currentToken' = NoToken /\ tokenExpiresAt' = NoExpiry
      /\ Len(conns') > Len(conns)
           => /\ conns'[Len(conns')].token \notin Rejected(conns)
              /\ conns'[Len(conns')].token = currentToken' ]_vars

\* C17 happens: a token was rejected, and a later connect attempt was made with
\* the token of a later issuance request
C17_Witness ==
  \E c, d \in DOMAIN conns :
    /\ conns[c].st = "unauthorized" /\ c < d /\ conns[d].after > 0
    /\ conns[d].token > conns[c].token /\ conns[d].token = currentToken

\* C18: when the issuance request of a connectSession call fails, the call fails:
\* live.connect is not invoked, the current session is left as it was, and the
\* application gets the error (reconnectSession counts the failure and arms its
\* backoff timer).  No valid token need be stored for that.
C18_NoTokenNoConnect ==
  [][ \A p \in Pend("fetch") :
        ( /\ p.caller # "refresh"
          /\ (p \notin DOMAIN pending' \/ pending'[p] < pending[p])
          /\ currentToken' # p.n )
        => /\ Len(conns') = Len(conns)
           /\ currentSession' = currentSession
           /\ p.caller = "user" => out'.op = "connectSession" /\ out'.res = "error"
           /\ p.caller = "reconnect"
                => /\ reconnectAttempts' = reconnectAttempts + 1
                   /\ Pend("backoff")' # {} ]_vars

\* C18 happens: the only issuance request failed with nothing stored, and
\* connectSession returned the error without a connection
C18_Witness ==
  /\ out.op = "connectSession" /\ out.res = "error"
  /\ nFetch = 1 /\ Pend("fetch") = {} /\ currentToken = NoToken
  /\ conns = << >> /\ currentSession = NoSession

\* C19: whenever ensureValidToken reports success (connectSession goes on to
\* live.connect), a token is stored and has more than the two-minute buffer left,
\* also when it was issued in that step.
C19_SuccessMeansBufferLeft ==
  [][ Len(conns') > Len(conns)
        => currentToken' # NoToken /\ tokenExpiresAt' > 2 * 60 * 1000 ]_vars

\* C20: a caller of ensureValidToken that found a refresh in flight makes no
\* issuance request of its own and returns only when that refresh has been
\* answered, with its outcome.
C20_WaiterGetsRefreshOutcome ==
  [][ \A p \in Pend("wait") :
        ( /\ p.left = 0 /\ now' = now
          /\ (p \notin DOMAIN pending' \/ pending'[p] < pending[p]) )
        => /\ nFetch' = nFetch
           /\ \A q \in Pend("fetch") : ~(q.caller = "refresh" /\ q.n = p.n) ]_vars

----------------------------------------------------------------------------
(* Properties of the health monitor and of reconnection *)

\* C21: a health check that finds the session connected and no inbound message
\* for more than five minutes starts a reconnection (or, the attempts being
\* used up, closes the manager).
C21_SilenceTriggersReconnect ==
  [][ ( /\ healthCheckInterval = 0 /\ healthCheckInterval' = HealthCheckPeriod
        /\ isSessionActive(State)
        /\ hist.sinceInbound > inactivityTimeout )
      => \/ hist'.attempts = hist.attempts + 1
         \/ hist'.exhausted = hist.exhausted + 1 ]_vars

\* C22: when an error or an aborted close takes the session from connected to
\* disconnected, a reconnection is under way after that step (a connect attempt,
\* its token request or its backoff timer is pending) unless the manager closed.
C22_DisconnectedMeansReconnecting ==
  [][ (isSessionActive(State) /\ currentSession' # NoSession
         /\ ~currentSession'.isConnected)
      => \E p \in DOMAIN pending' : p.caller = "reconnect" ]_vars

\* C23: when a connect succeeds (a new session becomes current), for a direct
\* call as for a reconnection, the reconnect-attempt counter is zero afterwards;
\* and the counter goes up only in a step in which a connect attempt of the
\* reconnection logic fails.
C23_CounterZeroAfterConnect ==
  [][ /\ (currentSession'.conn # NoConn /\ currentSession'.conn # currentSession.conn)
           => reconnectAttempts' = 0
      /\ reconnectAttempts' > reconnectAttempts
           => \E p \in DOMAIN pending :
                /\ p.caller = "reconnect" /\ p.kind \in {"connect", "fetch", "wait"}
                /\ (p \notin DOMAIN pending' \/ pending'[p] < pending[p])
                /\ Len(conns') = Len(conns) ]_vars

\* C24: whenever a session is current and connected the health-check interval
\* is armed, also after an earlier stop or exhaustion.
C24_ConnectedMeansHealthCheckArmed ==
  isSessionActive(State) => healthCheckInterval # NoTimer

\* C25: the k-th consecutive failed attempt of the reconnection logic arms a
\* wait of reconnectDelay * k, and no reconnection attempt starts while such a
\* wait is still running, whatever triggers arrive meanwhile.
C25_BackoffBeforeNextAttempt ==
  [][ /\ \A p \in Pend("backoff")' :
           p.age = 0 /\ (p \notin DOMAIN pending \/ pending'[p] > pending[p])
             => p.left = reconnectDelay * hist'.failed
      /\ hist'.attempts > hist.attempts
           => \A p \in Pend("backoff") : p.left = 0 ]_vars

\* C26: at any instant at most one connection opened by the manager is live
\* (opened and not yet closed); a reconnection started by the health check or
\* by a termination warning leaves no earlier connection open beside the new one.
C26_AtMostOneLiveConnection ==
  Cardinality({c \in 1..Len(conns) : Live(c)}) <= 1

\* C27: each input the capture pipeline emits is transmitted at most once, and
\* the inputs transmitted on one connection are transmitted in the order in
\* which their audio chunks arrived.
C27_TransmittedOnceInArrivalOrder ==
  [][ (out'.op = "sendMultimodalInput" /\ out'.res = "sent" /\ media'.emitted # NoInput)
      => /\ media'.emitted.chunk \notin hist.transmitted
         /\ \A k \in hist.transmitted : k < media'.emitted.chunk ]_vars

----------------------------------------------------------------------------
(* Further properties of the send path *)

\* C28: a send that carries no audio (sendVideoFrame, or sendMultimodalInput
\* without an audio chunk) on a connected session invokes the remote send
\* whether or not isProcessing is set, and leaves isProcessing as it was.
C28_NoAudioSendIgnoresBusy ==
  ((out.op = "sendVideoFrame" \/ (out.op = "sendMultimodalInput" /\ ~out.audio))
   /\ PreActive)
    => /\ out.res \in {"sent", "error"}
       /\ sent = out.pre.sent + 1
       /\ currentSession.isProcessing = PreBusy

\* a multimodal input without audio was transmitted while isProcessing was set
C28_Witness ==
  /\ out.op = "sendMultimodalInput" /\ ~out.audio /\ out.res = "sent"
  /\ PreActive /\ PreBusy
  /\ sent = out.pre.sent + 1 /\ currentSession.isProcessing

\* C30: when the remote send operation fails the caller gets the error, the
\* session stays current and connected, no reconnection is started, and an
\* audio-bearing send leaves isProcessing cleared.
C30_FailedSendLeavesSessionReady ==
  (out.op \in SendOps /\ PreActive /\ sent = out.pre.sent + 1 /\ out.res # "sent")
    => /\ out.res = "error"
       /\ currentSession = out.pre.currentSession
       /\ hist.attempts = out.pre.attempts /\ hist.exhausted = out.pre.exhausted
       /\ out.audio => ~currentSession.isProcessing

\* the remote send of an audio chunk failed on a connected session
C30_Witness ==
  /\ out.op = "sendAudioChunk" /\ out.res = "error"
  /\ PreActive /\ ~PreBusy /\ sent = out.pre.sent + 1
  /\ isSessionActive(State) /\ ~currentSession.isProcessing

----------------------------------------------------------------------------
(* Further properties of session resumption *)

\* C29: the stored resumption handle changes only in a step that delivers an
\* inbound message whose resumption update is resumable and has a non-empty new
\* handle, and such a step makes it exactly that handle; every other message,
\* error, close and reconnect leaves it as it was.
C29_HandleChangesOnlyOnResumableUpdate ==
  [][ /\ sessionHandle' # sessionHandle
           => out'.op = "onmessage" /\ out'.msg.update /\ out'.msg.resumable
              /\ out'.msg.newHandle # NoHandle
      /\ (out'.op = "onmessage" /\ out'.msg.update /\ out'.msg.resumable
          /\ out'.msg.newHandle # NoHandle)
           => sessionHandle' = out'.msg.newHandle ]_vars

\* a resumable update replaced the handle with which the latest connection, made
\* by a reconnect, was resumed
C29_Witness ==
  /\ out.op = "onmessage" /\ out.msg.update /\ out.msg.resumable
  /\ sessionHandle = out.msg.newHandle /\ sessionHandle # NoHandle
  /\ Len(conns) >= 2
  /\ conns[Len(conns)].handle \in Handles \ {sessionHandle}

----------------------------------------------------------------------------
(* Properties of superseded connections and of events before the return *)

\* C31: the close of a connection that a newer connection has superseded does
\* not alter the current session: it does not mark it disconnected, does not
\* clear its isProcessing flag and starts no reconnection.
C31_SupersededEventsLeaveSessionAlone ==
  [][ \A c \in DOMAIN conns :
        ( /\ conns[c].st # "closed" /\ conns'[c].st = "closed"
          /\ HasSession(State) /\ c < currentSession.conn )
        => /\ currentSession' = currentSession
           /\ hist'.attempts = hist.attempts ]_vars

\* C32: handling an inbound message raises no error in any reachable state,
\* also when a generation-complete message arrives while no session is current.
C32_MessageHandlingNeverThrows ==
  out.op = "onmessage" => out.res = "ok"

\* C33: the session is marked connected only if its connection has not
\* delivered a close event, also when the close fired before live.connect
\* returned the connection.
C33_ActiveMeansNotClosed ==
  isSessionActive(State) => conns[currentSession.conn].st # "closed"

\* C34: at any instant at most one reconnection chain is active: one connect
\* attempt of reconnectSession in flight or one backoff timer pending.
C34_OneReconnectionChain ==
  BagSize(pending, {p \in DOMAIN pending : p.caller = "reconnect"}) <= 1

----------------------------------------------------------------------------
(* Further properties of the credential store *)

\* C35: the immediate-refresh path is bounded: the answer to a request made by
\* refreshToken starts no further issuance request, however short the token's
\* lifetime, and the answer to any other request starts at most one.
C35_ImmediateRefreshIsBounded ==
  [][ \A p \in Pend("fetch") :
        (p \notin DOMAIN pending' \/ pending'[p] < pending[p])
        => /\ nFetch' <= nFetch + 1
           /\ p.caller = "refresh" => nFetch' = nFetch ]_vars

\* C36: whenever a token is stored and the manager has not been stopped, a
\* refresh timer is pending or an issuance request is in flight.
C36_StoredTokenHasRefreshAhead ==
  (currentToken # NoToken /\ hist.closed = "no")
    => (tokenRefreshInterval # NoTimer \/ Pend("fetch") # {})

----------------------------------------------------------------------------
(* Further properties of termination warnings *)

\* C37: a go-away timer acts only on the connection that received the warning:
\* when a newer connection has replaced that one before the timer fires, the
\* timer starts no reconnection.
C37_GoAwayActsOnItsConnection ==
  (out.op = "goAwayTimeout" /\ hist.warned # out.pre.currentSession.conn)
    => ~GoAwayReconnected

----------------------------------------------------------------------------
(* Further properties of the capture pipeline *)

\* C38: startCapture() called with permissions granted succeeds, also when
\* cleanup() ran before the permissions were requested again (as switchCamera
\* does).
C38_StartAfterCleanupSucceeds ==
  [][ (media'.starts > media.starts /\ media.stream) => ~media'.threw ]_vars

\* C39: every MediaInput handed to the callback carries a video frame (and the
\* audio chunk it was built for), whatever stopCapture and startCapture calls
\* came between the chunk's arrival and the end of its encoding.
C39_DeliveredInputIsComplete ==
  media.emitted # NoInput
    => (media.emitted.chunk > 0 /\ media.emitted.video # NoFrame)

\* C40: at most one video-frame timer is running at any instant, and one is
\* running only while isCapturing is true.
C40_OneFrameTimerWhileCapturing ==
  /\ media.intervals <= 1
  /\ media.intervals > 0 => media.isCapturing

====
